---- MODULE Spec2Model ----
(***************************************************************************)
(* Model of the two migration wrappers of this repository, AlembicAgent    *)
(* (src/alembic_agent/lib.py) and Moonshine (src/moonshine/lib.py), and of  *)
(* the environment script src/moonshine/migrations/env.py they run.        *)
(*                                                                         *)
(* The wrappers delegate path resolution (script._upgrade_revs,            *)
(* script._downgrade_revs, script._stamp_revs) and step execution          *)
(* (context.run_migrations) to code that is not part of src/; those parts  *)
(* are modelled from the specification (sections 3, 4.3, 4.4).             *)
(* AlembicAgent's environment script (<package>/script/env.py) is not in   *)
(* src/ either and is modelled from section 4.4 too.  An engine is taken   *)
(* to be configured at construction.                                       *)
(***************************************************************************)
EXTENDS Integers, Sequences, FiniteSets, TLC

\* Number of revisions in the revision graph.
MaxRev == 3

RevNames == <<"a", "b", "c", "d", "e", "f">>

Revs == {RevNames[i] : i \in 1..MaxRev}

\* Load order of a revision (the stable discovery order of section 4.3).
Idx(r) == CHOOSE i \in 1..MaxRev : RevNames[i] = r

\* A revision id that is in no graph.
UnknownRev == "zz"

---------------------------------------------------------------------------
(* Revision graph (spec section 3, 4.2)                                    *)

\* The parents the i-th loaded revision may declare: the revisions loaded
\* before it.
ParentChoices(i) == SUBSET {RevNames[j] : j \in 1..(i - 1)}

RECURSIVE Declared(_)
\* The declarations of the first n revisions, in load order.
Declared(n) ==
  IF n = 0 THEN {<<>>}
  ELSE {Append(f, c) : f \in Declared(n - 1), c \in ParentChoices(n)}

\* All revision graphs over Revs.  A graph gives each revision its parents,
\* down_revision and dependencies together (ancestry follows both kinds of
\* edge alike); every parent id exists and the edges are acyclic (a parent is
\* loaded before its child).
Graphs == {[r \in Revs |-> f[Idx(r)]] : f \in Declared(MaxRev)}

Parents(g, r) == g[r]

Children(g, r) == {c \in Revs : r \in Parents(g, c)}

RECURSIVE Ancestors(_, _)
\* Strict ancestors of r along down_revision and dependencies edges.
Ancestors(g, r) ==
  Parents(g, r) \cup UNION {Ancestors(g, p) : p \in Parents(g, r)}

\* Ancestor closure of a set of revisions, the revisions included.
Closure(g, S) == S \cup UNION {Ancestors(g, r) : r \in S}

Descendants(g, r) == {d \in Revs : r \in Ancestors(g, d)}

GraphHeads(g) == {r \in Revs : Children(g, r) = {}}

GraphBases(g) == {r \in Revs : Parents(g, r) = {}}

IsBranchPoint(g, r) == Cardinality(Children(g, r)) > 1

IsMergePoint(g, r) == Cardinality(Parents(g, r)) > 1

\* The heads of an applied set: its revisions with no applied child.
HeadsOf(g, S) == {r \in S : Children(g, r) \cap S = {}}

IsClosed(g, S) == \A r \in S : Parents(g, r) \subseteq S

\* Linear (non-branching) graph: one base, and at most one parent and one
\* child for every revision.
IsLinear(g) ==
  /\ \A r \in Revs : /\ Cardinality(Parents(g, r)) <= 1
                     /\ Cardinality(Children(g, r)) <= 1
  /\ Cardinality(GraphBases(g)) = 1

---------------------------------------------------------------------------
(* Revision arguments                                                      *)

\* A revision argument is a string; it is modelled as its sequence of
\* tokens, each a name or the separator ":".
Colon == ":"

\* Number of splits of revision.split(":", 2).
MaxSplit == 2

\* ":" in revision
HasColon(s) == \E i \in DOMAIN s : s[i] = Colon

FirstColon(s) == CHOOSE i \in DOMAIN s : s[i] = Colon /\ \A j \in 1..(i - 1) : s[j] # Colon

RECURSIVE Split(_, _)
\* str.split(":", n): at most n splits, the rest left whole in the last part.
Split(s, n) ==
  IF n = 0 \/ ~HasColon(s)
    THEN <<s>>
    ELSE <<SubSeq(s, 1, FirstColon(s) - 1)>>
           \o Split(SubSeq(s, FirstColon(s) + 1, Len(s)), n - 1)

\* The string a colon-free part stands for ("" for the empty part).
PartStr(p) == IF Len(p) = 1 THEN p[1] ELSE ""

SingleArgs == {<<t>> : t \in Revs \cup {"heads", "base", UnknownRev}}

RangeArgs ==
  {<<RevNames[1], Colon, t>> : t \in {RevNames[MaxRev], "heads"}}
    \cup {<<RevNames[1], Colon, RevNames[2], Colon, RevNames[1]>>}

RevisionArgs == SingleArgs \cup RangeArgs

---------------------------------------------------------------------------
(* Path Resolver (spec section 4.3)                                        *)

KnownTarget(t) == t \in Revs \cup {"heads", "base"}

\* Concrete ids a target specifier resolves to.
TargetSet(g, t) ==
  CASE t = "heads" -> GraphHeads(g)
    [] t = "base" -> {}
    [] OTHER -> {t}

MinIdx(S) == CHOOSE r \in S : \A q \in S : Idx(r) <= Idx(q)

MaxIdx(S) == CHOOSE r \in S : \A q \in S : Idx(r) >= Idx(q)

RECURSIVE TopoOrderNoReady(_, _)
\* Mutant of TopoOrder: the readiness of a revision is not checked and the
\* latest loaded revision is taken first.
TopoOrderNoReady(g, S) ==
  IF S = {} THEN <<>>
  ELSE <<MaxIdx(S)>> \o TopoOrderNoReady(g, S \ {MaxIdx(S)})

RECURSIVE TopoOrder(_, _)
\* S in topological order, every revision after all its parents in S; ties
\* broken by load order.
TopoOrder(g, S) ==
  IF S = {} THEN <<>>
  ELSE LET ready == {r \in S : Parents(g, r) \cap S = {}}
           r == MinIdx(ready)
       IN <<r>> \o TopoOrder(g, S \ {r})

Reverse(s) == [i \in 1..Len(s) |-> s[Len(s) + 1 - i]]

StepsOf(order, dir) == [i \in 1..Len(order) |-> [rev |-> order[i], dir |-> dir]]

\* script._upgrade_revs(destination, current_rev)
UpgradeRevs(g, destination, heads) ==
  StepsOf(TopoOrder(g, Closure(g, TargetSet(g, destination)) \ Closure(g, heads)),
          "apply")

\* script._downgrade_revs(destination, current_rev)
DowngradeRevs(g, destination, heads) ==
  StepsOf(Reverse(TopoOrder(g, Closure(g, heads) \ Closure(g, TargetSet(g, destination)))),
          "revert")

\* script._stamp_revs(revisions, heads): the resolved target set.
StampRevs(g, destination, heads) == TargetSet(g, destination)

---------------------------------------------------------------------------
(* Wrapper argument handling                                               *)

None == "None"

NoError == "ok"

Args(e, s, r) == [err |-> e, starting_rev |-> s, revision |-> r]

\* starting_rev, revision = revision.split(":", 2)
SplitRange(revision) ==
  LET parts == Split(revision, MaxSplit)
  IN IF Len(parts) # 2
       THEN Args("ValueError", None, PartStr(revision))
       ELSE Args(NoError, PartStr(parts[1]), PartStr(parts[2]))

\* upgrade(): the range check before the environment context is entered.
UpgradeArgs(revision, sql) ==
  IF HasColon(revision)
    THEN IF ~sql
           THEN Args("RangeNotAllowed", None, PartStr(revision))
           ELSE SplitRange(revision)
    ELSE Args(NoError, None, PartStr(revision))

\* Mutant of DowngradeArgs: the elif sql branch is missing.
DowngradeArgsUnchecked(revision, sql) == UpgradeArgs(revision, sql)

\* downgrade(): as upgrade(), and --sql requires <fromrev>:<torev>.
DowngradeArgs(revision, sql) ==
  IF HasColon(revision)
    THEN IF ~sql
           THEN Args("RangeNotAllowed", None, PartStr(revision))
           ELSE SplitRange(revision)
    ELSE IF sql
           THEN Args("InvalidRangeSpec", None, PartStr(revision))
           ELSE Args(NoError, None, PartStr(revision))

\* stamp(): a range is split only under --sql; otherwise the argument is the
\* destination as given.
StampArgs(revision, sql) ==
  IF sql /\ HasColon(revision)
    THEN SplitRange(revision)
    ELSE Args(NoError, None, PartStr(revision))

\* as_sql of the EnvironmentContext the wrapper builds: AlembicAgent passes
\* as_sql=sql, Moonshine does not pass it.
AsSql(v, sql) == IF v = "AlembicAgent" THEN sql ELSE FALSE

\* Whether the wrapper enters the EnvironmentContext and runs env.py:
\* AlembicAgent always, Moonshine only when sql is set.
EntersEnv(v, sql) == IF v = "AlembicAgent" THEN TRUE ELSE sql

\* What the wrapper returns after run_env: AlembicAgent the output buffer,
\* Moonshine nothing.
ReturnsText(v) == v = "AlembicAgent"

---------------------------------------------------------------------------
(* State                                                                   *)

VARIABLES
  variant,    \* which wrapper class is in use
  graph,      \* the revision graph of the script directory
  dbHeads,    \* Version State Store: committed rows of the version table
  dbSchema,   \* committed schema: revisions whose apply has taken effect
  pc,         \* position of the current call
  call,       \* the current (or last) call's arguments
  ctx,        \* the EnvironmentContext options of the current call
  conn,       \* the connection: "closed" or "open"
  nconn,      \* connections acquired by the current call
  tx,         \* the transaction: "none", "active", "committed", "rolledback"
  txHeads,    \* version table as seen inside the transaction
  txSchema,   \* schema as seen inside the transaction
  applied,    \* the runner's working applied set
  cur,        \* the heads the step sequence was resolved from
  plan,       \* the resolved step sequence
  done,       \* number of steps of plan executed
  err,        \* error raised inside the run
  last,       \* outcome of the last completed call
  preHeads,   \* dbHeads when the current call started
  preSchema,  \* dbSchema when the current call started
  prev,       \* history: the successful online upgrade just before this call
  db_current_indicator,  \* the _db_current_indicator attribute of the Script objects
  runs,       \* concurrent online runs: each run's position and resolved steps
  live,       \* revisions whose changes are in effect in the shared database
  overlapped, \* a run has read Current while another had read and not yet ended
  violation   \* first fault of the combined execution: "none", "twice", "order"

vars ==
  <<variant, graph, dbHeads, dbSchema, pc, call, ctx, conn, nconn, tx, txHeads,
    txSchema, applied, cur, plan, done, err, last, preHeads, preSchema, prev,
    db_current_indicator, runs, live, overlapped, violation>>

Variants == {"AlembicAgent", "Moonshine"}

NoErr == [kind |-> NoError, rev |-> None]

Err(k, r) == [kind |-> k, rev |-> r]

NoCall ==
  [op |-> None, revision |-> <<>>, sql |-> FALSE, purge |-> FALSE,
   indicate_current |-> FALSE]

NoCtx ==
  [fn |-> None, as_sql |-> FALSE, starting_rev |-> None, destination_rev |-> None,
   purge |-> FALSE]

NoPrev == [revision |-> <<>>, sql |-> FALSE, n |-> 0, fromEmpty |-> FALSE]

\* The two migrators that may run against the same database.
Procs == {"p", "q"}

\* A migrator that is not inside run_migrations_online.
IdleRun == [pc |-> "idle", cur |-> {}, plan |-> <<>>, done |-> 0]

\* No Script object carries the attribute after the script directory is loaded.
NoIndicator == [r \in {} |-> FALSE]

NoLast == [status |-> "none", err |-> NoErr, text |-> <<>>, returned |-> None]

Init ==
  /\ variant \in Variants
  /\ graph \in Graphs
  /\ dbHeads = {}
  /\ dbSchema = {}
  /\ pc = "idle"
  /\ call = NoCall
  /\ ctx = NoCtx
  /\ conn = "closed"
  /\ nconn = 0
  /\ tx = "none"
  /\ txHeads = {}
  /\ txSchema = {}
  /\ applied = {}
  /\ cur = {}
  /\ plan = <<>>
  /\ done = 0
  /\ err = NoErr
  /\ last = NoLast
  /\ preHeads = {}
  /\ preSchema = {}
  /\ prev = NoPrev
  /\ db_current_indicator = NoIndicator
  /\ runs = [p \in Procs |-> IdleRun]
  /\ live = {}
  /\ overlapped = FALSE
  /\ violation = "none"

---------------------------------------------------------------------------
(* Entering a call                                                         *)

Result(status, e, text, returned) ==
  [status |-> status, err |-> e, text |-> text, returned |-> returned]

\* The wrapper's body up to script.run_env(): argument errors are raised
\* before the EnvironmentContext is built; Moonshine runs nothing when sql is
\* not set.
Enter(op, revision, sql, purge, a) ==
  /\ pc = "idle"
  /\ call' = [op |-> op, revision |-> revision, sql |-> sql, purge |-> purge,
              indicate_current |-> FALSE]
  /\ preHeads' = dbHeads
  /\ preSchema' = dbSchema
  /\ ctx' = [fn |-> op, as_sql |-> AsSql(variant, sql), starting_rev |-> a.starting_rev,
             destination_rev |-> a.revision, purge |-> purge]
  /\ IF a.err # NoError
       THEN /\ pc' = "returned"
            /\ last' = Result("error", Err(a.err, None), <<>>, None)
       ELSE IF ~EntersEnv(variant, sql)
              THEN /\ pc' = "returned"
                   /\ last' = Result("ok", NoErr, <<>>, None)
              ELSE /\ pc' = "run_env"
                   /\ last' = NoLast
  /\ UNCHANGED <<variant, graph, dbHeads, dbSchema, conn, nconn, tx, txHeads, txSchema,
                 applied, cur, plan, done, err, prev,
                 db_current_indicator, runs, live, overlapped, violation>>

Upgrade ==
  /\ pc = "idle"
  /\ \E revision \in RevisionArgs, sql \in BOOLEAN :
       Enter("upgrade", revision, sql, FALSE, UpgradeArgs(revision, sql))

Downgrade ==
  /\ pc = "idle"
  /\ \E revision \in RevisionArgs, sql \in BOOLEAN :
       Enter("downgrade", revision, sql, FALSE, DowngradeArgs(revision, sql))

Stamp ==
  /\ pc = "idle"
  /\ \E revision \in RevisionArgs, sql \in BOOLEAN, purge \in BOOLEAN :
       Enter("stamp", revision, sql, purge, StampArgs(revision, sql))

\* The caller has the call's outcome; the call's frame is gone.
\* The frame the call leaves behind.
Forget ==
  /\ pc' = "idle"
  /\ call' = NoCall
  /\ ctx' = NoCtx
  /\ nconn' = 0
  /\ tx' = "none"
  /\ txHeads' = {}
  /\ txSchema' = {}
  /\ applied' = {}
  /\ cur' = {}
  /\ plan' = <<>>
  /\ done' = 0
  /\ err' = NoErr
  /\ last' = NoLast
  /\ preHeads' = {}
  /\ preSchema' = {}
  /\ UNCHANGED <<variant, graph, dbHeads, dbSchema, conn, db_current_indicator, runs,
                 live, overlapped, violation>>

\* The caller has the call's outcome; the call's frame is gone.
Return ==
  /\ pc = "returned"
  /\ Forget
  /\ UNCHANGED prev

\* History of the call just completed: a successful online upgrade.
PrevOf ==
  IF call.op = "upgrade" /\ last.status = "ok" /\ nconn = 1
    THEN [revision |-> call.revision, sql |-> call.sql, n |-> Len(plan),
          fromEmpty |-> preHeads = {}]
    ELSE NoPrev

\* Return, with the history of the completed call recorded.
ReturnNoting ==
  /\ pc = "returned"
  /\ Forget
  /\ prev' = PrevOf

---------------------------------------------------------------------------
(* The environment script                                                  *)

\* Body of moonshine/migrations/env.py: offline mode is refused, otherwise
\* run_migrations_online().
MoonshineEnv(as_sql) == IF as_sql THEN "raise" ELSE "online"

\* Body of AlembicAgent's environment script: the Runner's two modes.
AgentEnv(as_sql) == IF as_sql THEN "offline" ELSE "online"

EnvMode(v, as_sql) == IF v = "Moonshine" THEN MoonshineEnv(as_sql) ELSE AgentEnv(as_sql)

\* Current of an offline run: the starting revision of the range, base when
\* none is given.
OfflineHeads(g, starting_rev) ==
  IF starting_rev = None THEN {} ELSE TargetSet(g, starting_rev)

\* Mutant of do_upgrade: the current heads passed in are ignored.
do_upgrade_from_base(g, revision, rev) == UpgradeRevs(g, revision, {})

\* def do_upgrade(rev, context): return script._upgrade_revs(revision, rev)
do_upgrade(g, revision, rev) == UpgradeRevs(g, revision, rev)

\* Mutant of do_downgrade: the closure calls script._upgrade_revs.
do_downgrade_upgrades(g, revision, rev) == UpgradeRevs(g, revision, rev)

\* Mutant of do_downgrade: the target passed in is ignored and the run goes
\* down to base.
do_downgrade_to_base(g, revision, rev) == DowngradeRevs(g, "base", rev)

\* def do_downgrade(rev, context): return script._downgrade_revs(revision, rev)
do_downgrade(g, revision, rev) == DowngradeRevs(g, revision, rev)

\* def do_stamp(rev, context): return script._stamp_revs(destination_revs, rev)
do_stamp(g, destination_revs, rev) == StampRevs(g, destination_revs, rev)

\* The step sequence fn(heads) resolves.
Resolve(g, fn, destination, heads) ==
  CASE fn = "upgrade" -> do_upgrade(g, destination, heads)
    [] fn = "downgrade" -> do_downgrade(g, destination, heads)
    [] OTHER -> <<>>

\* The version table after a stamp: purge clears it first, then it is set to
\* the resolved target set.
StampHeads(g, destination, heads, purge) ==
  LET cleared == IF purge THEN {} ELSE heads
  IN do_stamp(g, destination, cleared)

\* Statement text of a stamp: the purge of the version table when asked for,
\* then one row per stamped revision.
StampText(g, destination, heads, purge) ==
  (IF purge THEN <<[rev |-> None, dir |-> "purge"]>> ELSE <<>>)
    \o StepsOf(TopoOrder(g, do_stamp(g, destination, heads)), "stamp")

\* Offline run: every step is rendered into the output buffer; nothing is
\* executed and no connection is opened.
Render(g, c) ==
  IF c.fn = "stamp"
    THEN StampText(g, c.destination_rev, OfflineHeads(g, c.starting_rev), c.purge)
    ELSE Resolve(g, c.fn, c.destination_rev, OfflineHeads(g, c.starting_rev))

\* script.run_env(): the environment script runs under the call's context.
RunEnv ==
  /\ pc = "run_env"
  /\ LET mode == EnvMode(variant, ctx.as_sql)
         known == /\ KnownTarget(ctx.destination_rev)
                  /\ ctx.starting_rev = None \/ KnownTarget(ctx.starting_rev)
     IN CASE mode = "online" ->
               /\ pc' = "online"
               /\ UNCHANGED <<last, plan, cur>>
          [] mode = "raise" ->
               /\ pc' = "returned"
               /\ last' = Result("error", Err("Exception", None), <<>>, None)
               /\ UNCHANGED <<plan, cur>>
          [] OTHER ->
               /\ pc' = "returned"
               /\ cur' = IF known THEN OfflineHeads(graph, ctx.starting_rev) ELSE {}
               /\ plan' = IF known THEN Render(graph, ctx) ELSE <<>>
               /\ last' = IF known
                            THEN Result("ok", NoErr, plan',
                                        IF ReturnsText(variant) THEN "text" ELSE None)
                            ELSE Result("error", Err("UnknownRevision", None), <<>>, None)
  /\ UNCHANGED <<variant, graph, dbHeads, dbSchema, call, ctx, conn, nconn, tx, txHeads,
                 txSchema, applied, done, err, preHeads, preSchema, prev,
                 db_current_indicator, runs, live, overlapped, violation>>

---------------------------------------------------------------------------
(* run_migrations_online                                                   *)

\* with engine.connect() as connection
Connect ==
  /\ pc = "online"
  /\ conn = "closed"
  /\ conn' = "open"
  /\ nconn' = nconn + 1
  /\ pc' = "connected"
  /\ UNCHANGED <<variant, graph, dbHeads, dbSchema, call, ctx, tx, txHeads, txSchema,
                 applied, cur, plan, done, err, last, preHeads, preSchema, prev,
                 db_current_indicator, runs, live, overlapped, violation>>

\* context.configure(...); with context.begin_transaction()
BeginTransaction ==
  /\ pc = "connected"
  /\ tx' = "active"
  /\ txHeads' = dbHeads
  /\ txSchema' = dbSchema
  /\ pc' = "in_tx"
  /\ UNCHANGED <<variant, graph, dbHeads, dbSchema, call, ctx, conn, nconn, applied,
                 cur, plan, done, err, last, preHeads, preSchema, prev,
                 db_current_indicator, runs, live, overlapped, violation>>

\* context.run_migrations(): the current heads are read and fn resolves the
\* steps; a stamp sets the version table to the resolved target set, after
\* clearing it when purge is set.  A starting revision is refused here: an
\* online run reads Current from its connection.  Resolution errors are
\* raised inside the transaction.
RunMigrations ==
  /\ pc = "in_tx"
  /\ cur' = txHeads
  /\ UNCHANGED done
  /\ IF ctx.starting_rev # None
       THEN /\ err' = Err("StartingRevOnline", None)
            /\ pc' = "failed"
            /\ UNCHANGED <<plan, applied, txHeads>>
       ELSE IF ~KnownTarget(ctx.destination_rev)
              THEN /\ err' = Err("UnknownRevision", None)
                   /\ pc' = "failed"
                   /\ UNCHANGED <<plan, applied, txHeads>>
              ELSE /\ err' = NoErr
                   /\ pc' = "running"
                   /\ plan' = Resolve(graph, ctx.fn, ctx.destination_rev, txHeads)
                   /\ applied' = Closure(graph, txHeads)
                   /\ txHeads' = IF ctx.fn = "stamp"
                                   THEN StampHeads(graph, ctx.destination_rev, txHeads,
                                                   ctx.purge)
                                   ELSE txHeads
  /\ UNCHANGED <<variant, graph, dbHeads, dbSchema, call, ctx, conn, nconn, tx, txSchema,
                 last, preHeads, preSchema, prev,
                 db_current_indicator, runs, live, overlapped, violation>>

\* The effect of one step on a set of revisions.
StepEffect(S, step) ==
  IF step.dir = "apply" THEN S \cup {step.rev} ELSE S \ {step.rev}

\* One step's operation runs against the open connection and succeeds.
StepOk ==
  /\ pc = "running"
  /\ done < Len(plan)
  /\ txSchema' = StepEffect(txSchema, plan[done + 1])
  /\ applied' = StepEffect(applied, plan[done + 1])
  /\ done' = done + 1
  /\ UNCHANGED <<variant, graph, dbHeads, dbSchema, pc, call, ctx, conn, nconn, tx,
                 txHeads, cur, plan, err, last, preHeads, preSchema, prev,
                 db_current_indicator, runs, live, overlapped, violation>>

\* One step's operation raises: the error names the failing revision.
StepFail ==
  /\ pc = "running"
  /\ done < Len(plan)
  /\ err' = Err("ExecutionError", plan[done + 1].rev)
  /\ pc' = "failed"
  /\ UNCHANGED <<variant, graph, dbHeads, dbSchema, call, ctx, conn, nconn, tx, txHeads,
                 txSchema, applied, cur, plan, done, last, preHeads, preSchema, prev,
                 db_current_indicator, runs, live, overlapped, violation>>

\* The version table the run leaves: a stamp's target set, otherwise the
\* heads of the new applied set.
NewHeads == IF ctx.fn = "stamp" THEN txHeads ELSE HeadsOf(graph, applied)

\* begin_transaction() exits normally: the version table is set to the new
\* applied set and the transaction commits.
Commit ==
  /\ pc = "running"
  /\ done = Len(plan)
  /\ txHeads' = NewHeads
  /\ dbHeads' = NewHeads
  /\ dbSchema' = txSchema
  /\ tx' = "committed"
  /\ pc' = "tx_done"
  /\ UNCHANGED <<variant, graph, call, ctx, conn, nconn, txSchema, applied, cur, plan,
                 done, err, last, preHeads, preSchema, prev,
                 db_current_indicator, runs, live, overlapped, violation>>

\* Mutant of Rollback: the schema changes made so far stay (the steps ran
\* outside the transaction); only the version table is rolled back.
RollbackKeepsSchema ==
  /\ pc = "failed"
  /\ tx' = "rolledback"
  /\ txHeads' = dbHeads
  /\ dbSchema' = txSchema
  /\ pc' = "tx_done"
  /\ UNCHANGED <<variant, graph, dbHeads, txSchema, call, ctx, conn, nconn, applied, cur,
                 plan, done, err, last, preHeads, preSchema, prev,
                 db_current_indicator, runs, live, overlapped, violation>>

\* Mutant of Rollback: the transaction is committed on an exception too.
RollbackCommits ==
  /\ pc = "failed"
  /\ tx' = "committed"
  /\ txHeads' = HeadsOf(graph, applied)
  /\ dbHeads' = HeadsOf(graph, applied)
  /\ dbSchema' = txSchema
  /\ pc' = "tx_done"
  /\ UNCHANGED <<variant, graph, txSchema, call, ctx, conn, nconn, applied, cur,
                 plan, done, err, last, preHeads, preSchema, prev,
                 db_current_indicator, runs, live, overlapped, violation>>

\* begin_transaction() exits on an exception: the transaction rolls back.
Rollback ==
  /\ pc = "failed"
  /\ tx' = "rolledback"
  /\ txHeads' = dbHeads
  /\ txSchema' = dbSchema
  /\ pc' = "tx_done"
  /\ UNCHANGED <<variant, graph, dbHeads, dbSchema, call, ctx, conn, nconn, applied, cur,
                 plan, done, err, last, preHeads, preSchema, prev,
                 db_current_indicator, runs, live, overlapped, violation>>

\* Mutant of Close: the connection is closed on the normal path only.
CloseOnSuccessOnly ==
  /\ pc = "tx_done"
  /\ conn' = IF err = NoErr THEN "closed" ELSE "open"
  /\ pc' = "returned"
  /\ last' = IF err = NoErr
               THEN Result("ok", NoErr, <<>>, IF ReturnsText(variant) THEN "text" ELSE None)
               ELSE Result("error", err, <<>>, None)
  /\ UNCHANGED <<variant, graph, dbHeads, dbSchema, call, ctx, nconn, tx, txHeads,
                 txSchema, applied, cur, plan, done, err, preHeads, preSchema, prev,
                 db_current_indicator, runs, live, overlapped, violation>>

\* engine.connect() exits: the connection is closed, and the call returns
\* or the exception propagates to the caller.
Close ==
  /\ pc = "tx_done"
  /\ conn' = "closed"
  /\ pc' = "returned"
  /\ last' = IF err = NoErr
               THEN Result("ok", NoErr, <<>>, IF ReturnsText(variant) THEN "text" ELSE None)
               ELSE Result("error", err, <<>>, None)
  /\ UNCHANGED <<variant, graph, dbHeads, dbSchema, call, ctx, nconn, tx, txHeads,
                 txSchema, applied, cur, plan, done, err, preHeads, preSchema, prev,
                 db_current_indicator, runs, live, overlapped, violation>>

---------------------------------------------------------------------------
(* The current property                                                    *)

\* migration_context: with self.engine.connect() as conn, the environment is
\* configured with the connection and the migration context is yielded.
MigrationContext ==
  /\ pc = "idle"
  /\ conn = "closed"
  /\ conn' = "open"
  /\ nconn' = nconn + 1
  /\ pc' = "in_context"
  /\ call' = [op |-> "current", revision |-> <<>>, sql |-> FALSE, purge |-> FALSE,
              indicate_current |-> FALSE]
  /\ preHeads' = dbHeads
  /\ preSchema' = dbSchema
  /\ UNCHANGED <<variant, graph, dbHeads, dbSchema, ctx, tx, txHeads, txSchema, applied,
                 cur, plan, done, err, last, prev,
                 db_current_indicator, runs, live, overlapped, violation>>

\* current: the revisions of migration_context.get_current_heads() are
\* returned and the with block of migration_context closes the connection.
Current ==
  /\ pc = "in_context"
  /\ cur' = dbHeads
  /\ conn' = "closed"
  /\ pc' = "returned"
  /\ last' = Result("ok", NoErr, StepsOf(TopoOrder(graph, dbHeads), "current"), "revisions")
  /\ UNCHANGED <<variant, graph, dbHeads, dbSchema, call, ctx, nconn, tx, txHeads,
                 txSchema, applied, plan, done, err, preHeads, preSchema, prev,
                 db_current_indicator, runs, live, overlapped, violation>>

---------------------------------------------------------------------------
(* history                                                                 *)

\* rev_range=None
NoRange == <<None>>

HistoryRanges ==
  {NoRange, <<"heads">>, <<Colon>>, <<"base", Colon, "heads">>,
   <<RevNames[1], Colon, RevNames[2], Colon, RevNames[1]>>}
    \cup {<<x, Colon, y>> : x \in {RevNames[1], RevNames[2], "current"},
                            y \in {RevNames[MaxRev], "current", UnknownRev}}
    \cup {<<RevNames[2], Colon>>, <<Colon, RevNames[2]>>}

HistArgs(e, b, h) == [err |-> e, base |-> b, head |-> h]

\* history(): the range check and base, head = rev_range.strip().split(":")
HistoryArgs(rev_range) ==
  IF rev_range = NoRange
    THEN HistArgs(NoError, None, None)
    ELSE IF ~HasColon(rev_range)
           THEN HistArgs("CommandError", None, None)
           ELSE LET parts == Split(rev_range, Len(rev_range))
                IN IF Len(parts) # 2
                     THEN HistArgs("ValueError", None, None)
                     ELSE HistArgs(NoError, PartStr(parts[1]), PartStr(parts[2]))

\* environment = asbool(revision_environment) or indicate_current, and the
\* test that selects _display_history_w_current
NeedsCurrent(a, revision_environment, indicate_current) ==
  a.base = "current" \/ a.head = "current" \/ revision_environment \/ indicate_current

\* base or "base", head or "heads": None, the empty string and the empty
\* tuple of current revisions stand for the default.
OrDefault(x, default) == IF x \in {None, ""} THEN default ELSE x

\* An end of the range as a set of revisions; "current" is replaced by the
\* current revisions (by the default when there are none).
RangeEnd(g, x, default, currents) ==
  IF x = "current"
    THEN IF currents = {} THEN TargetSet(g, default) ELSE currents
    ELSE TargetSet(g, OrDefault(x, default))

KnownEnd(x) == x \in {None, "", "current"} \/ KnownTarget(x)

\* The revisions between lower and upper, both included; lower = {} is the
\* empty revision below every base.
RevisionsBetween(g, lower, upper) ==
  {r \in Closure(g, upper) : lower = {} \/ lower \cap Closure(g, {r}) # {}}

\* script_directory.walk_revisions(base, head): the revisions of the range,
\* from the head down to the base.
WalkRevisions(g, lower, upper) == Reverse(TopoOrder(g, RevisionsBetween(g, lower, upper)))

\* sc in currents (AlembicAgent); sc.revision in currents (Moonshine), a
\* string looked up in a tuple of Script objects.
InCurrents(v, sc, currents) == IF v = "AlembicAgent" THEN sc \in currents ELSE FALSE

RECURSIVE InsertAll(_)
\* history.insert(0, sc) for every sc of the walk
InsertAll(walk) ==
  IF walk = <<>> THEN <<>> ELSE InsertAll(Tail(walk)) \o <<Head(walk)>>

\* history.append(sc) for every sc of the walk
AppendAll(walk) == walk

\* The list _display_history builds from the walk.
HistoryList(v, walk) == IF v = "AlembicAgent" THEN InsertAll(walk) ELSE AppendAll(walk)

\* The Script objects' attribute after the loop of _display_history.
Indicated(v, ind, walk, currents, indicate_current) ==
  IF ~indicate_current
    THEN ind
    ELSE LET seen == {walk[i] : i \in DOMAIN walk}
         IN [r \in (DOMAIN ind) \cup seen |->
               IF r \in seen THEN InCurrents(v, r, currents) ELSE ind[r]]

\* _display_history(base, head, currents): the call's outcome and the
\* attribute values it leaves.
DisplayHistory(a, currents) ==
  IF ~(KnownEnd(a.base) /\ KnownEnd(a.head))
    THEN /\ last' = Result("error", Err("UnknownRevision", None), <<>>, None)
         /\ UNCHANGED db_current_indicator
    ELSE LET walk == WalkRevisions(graph, RangeEnd(graph, a.base, "base", currents),
                                   RangeEnd(graph, a.head, "heads", currents))
         IN /\ last' = Result("ok", NoErr, StepsOf(HistoryList(variant, walk), "history"),
                              "revisions")
            /\ db_current_indicator' =
                 Indicated(variant, db_current_indicator, walk, currents,
                           call'.indicate_current)

\* history(): argument errors are raised first; without a need for the
\* current revisions the list is built at once, otherwise self.current is
\* read first, through migration_context.
History ==
  /\ pc = "idle"
  /\ \E rev_range \in HistoryRanges, indicate_current \in BOOLEAN,
        revision_environment \in BOOLEAN :
       LET a == HistoryArgs(rev_range)
       IN /\ call' = [op |-> "history", revision |-> rev_range, sql |-> FALSE,
                      purge |-> FALSE, indicate_current |-> indicate_current]
          /\ preHeads' = dbHeads
          /\ preSchema' = dbSchema
          /\ IF a.err # NoError
               THEN /\ pc' = "returned"
                    /\ last' = Result("error", Err(a.err, None), <<>>, None)
                    /\ UNCHANGED <<conn, nconn, db_current_indicator>>
               ELSE IF NeedsCurrent(a, revision_environment, indicate_current)
                      THEN /\ conn = "closed"
                           /\ conn' = "open"
                           /\ nconn' = nconn + 1
                           /\ pc' = "in_history"
                           /\ UNCHANGED <<last, db_current_indicator>>
                      ELSE /\ pc' = "returned"
                           /\ DisplayHistory(a, {})
                           /\ UNCHANGED <<conn, nconn>>
  /\ UNCHANGED <<variant, graph, dbHeads, dbSchema, ctx, tx, txHeads, txSchema, applied,
                 cur, plan, done, err, prev, runs, live, overlapped, violation>>

\* rev = self.current: the current revisions are read and the connection of
\* migration_context is closed; then _display_current_history(rev).
HistoryCurrent ==
  /\ pc = "in_history"
  /\ cur' = dbHeads
  /\ conn' = "closed"
  /\ pc' = "returned"
  /\ UNCHANGED call
  /\ DisplayHistory(HistoryArgs(call.revision), dbHeads)
  /\ UNCHANGED <<variant, graph, dbHeads, dbSchema, ctx, nconn, tx, txHeads, txSchema,
                 applied, plan, done, err, preHeads, preSchema, prev, runs, live,
                 overlapped, violation>>

Next ==
  \/ Upgrade
  \/ Downgrade
  \/ Stamp
  \/ RunEnv
  \/ Connect
  \/ BeginTransaction
  \/ RunMigrations
  \/ StepOk
  \/ StepFail
  \/ Commit
  \/ Rollback
  \/ Close
  \/ MigrationContext
  \/ Current
  \/ Return

Spec == Init /\ [][Next]_vars

\* Upgrade and downgrade runs only (no stamp), with the history of consecutive
\* calls recorded.
NextSeq ==
  \/ Upgrade
  \/ Downgrade
  \/ RunEnv
  \/ Connect
  \/ BeginTransaction
  \/ RunMigrations
  \/ StepOk
  \/ StepFail
  \/ Commit
  \/ Rollback
  \/ Close
  \/ ReturnNoting

SpecSeq == Init /\ [][NextSeq]_vars

\* history calls, between stamps that set the current revisions.
NextHistory ==
  \/ Stamp
  \/ RunEnv
  \/ Connect
  \/ BeginTransaction
  \/ RunMigrations
  \/ Commit
  \/ Rollback
  \/ Close
  \/ History
  \/ HistoryCurrent
  \/ Return

SpecHistory == Init /\ [][NextHistory]_vars

---------------------------------------------------------------------------
(* Two migrators on one database                                           *)

\* Each migrator runs run_migrations_online of moonshine/migrations/env.py
\* for an upgrade or a downgrade to a target of the graph; the Version State
\* Store dbHeads is shared, and the steps take effect in the shared database
\* as they are executed.  The call's fn and target play no part before
\* run_migrations, where they are drawn.

ConcTargets == Revs \cup {"base", "heads"}

\* The single-call frame is not used by the concurrent runs.
FrameUnchanged ==
  UNCHANGED <<variant, graph, dbSchema, pc, call, ctx, conn, nconn, tx, txHeads, txSchema,
              applied, cur, plan, done, err, last, preHeads, preSchema, prev,
              db_current_indicator>>

\* The run has read Current and has not yet committed or rolled back.
InFlight(r) == r.pc \in {"running", "failed"}

\* Revisions of the first n steps of a plan in one direction.
StepRevs(steps, n, dir) == {steps[i].rev : i \in {j \in 1..n : steps[j].dir = dir}}

\* The applied set the run has worked out: what it read, changed by its steps.
WorkingSet(g, r) ==
  (Closure(g, r.cur) \cup StepRevs(r.plan, r.done, "apply"))
    \ StepRevs(r.plan, r.done, "revert")

\* The database with the run's executed steps undone.
Undone(S, r) ==
  (S \ StepRevs(r.plan, r.done, "apply")) \cup StepRevs(r.plan, r.done, "revert")

\* What executing a step does wrong in the database as it is: a revision
\* applied (or reverted) a second time, or applied without a parent in place
\* (reverted with a child in place).
Fault(g, S, step) ==
  IF step.dir = "apply"
    THEN IF step.rev \in S THEN "twice"
         ELSE IF ~(Parents(g, step.rev) \subseteq S) THEN "order" ELSE "none"
    ELSE IF step.rev \notin S THEN "twice"
         ELSE IF Children(g, step.rev) \cap S # {} THEN "order" ELSE "none"

\* with engine.connect() as connection.  Runs are followed up to and
\* including the first two that overlap: no further run is started after.
RunConnect(p) ==
  /\ runs[p].pc = "idle"
  /\ ~overlapped
  /\ runs' = [runs EXCEPT ![p].pc = "connected"]
  /\ UNCHANGED <<dbHeads, live, overlapped, violation>>
  /\ FrameUnchanged

\* context.configure(...); with context.begin_transaction()
RunBegin(p) ==
  /\ runs[p].pc = "connected"
  /\ runs' = [runs EXCEPT ![p].pc = "in_tx"]
  /\ UNCHANGED <<dbHeads, live, overlapped, violation>>
  /\ FrameUnchanged

\* context.run_migrations(): Current is read from the store and the steps
\* are resolved from it.
RunResolve(p) ==
  /\ runs[p].pc = "in_tx"
  /\ \E fn \in {"upgrade", "downgrade"}, destination \in ConcTargets :
       runs' = [runs EXCEPT ![p].pc = "running",
                            ![p].cur = dbHeads,
                            ![p].plan = Resolve(graph, fn, destination, dbHeads)]
  /\ overlapped' = (overlapped \/ \E q \in Procs \ {p} : InFlight(runs[q]))
  /\ UNCHANGED <<dbHeads, live, violation>>
  /\ FrameUnchanged

\* One step's operation runs against the run's connection and succeeds.
RunStep(p) ==
  /\ runs[p].pc = "running"
  /\ runs[p].done < Len(runs[p].plan)
  /\ LET step == runs[p].plan[runs[p].done + 1]
     IN /\ live' = StepEffect(live, step)
        /\ violation' = IF violation # "none" THEN violation
                        ELSE Fault(graph, live, step)
  /\ runs' = [runs EXCEPT ![p].done = @ + 1]
  /\ UNCHANGED <<dbHeads, overlapped>>
  /\ FrameUnchanged

\* One step's operation raises.
RunStepFail(p) ==
  /\ runs[p].pc = "running"
  /\ runs[p].done < Len(runs[p].plan)
  /\ runs' = [runs EXCEPT ![p].pc = "failed"]
  /\ UNCHANGED <<dbHeads, live, overlapped, violation>>
  /\ FrameUnchanged

\* Mutant of RunCommit: the version table is not written.
RunCommitNoWrite(p) ==
  /\ runs[p].pc = "running"
  /\ runs[p].done = Len(runs[p].plan)
  /\ runs' = [runs EXCEPT ![p] = [IdleRun EXCEPT !.pc = "tx_done"]]
  /\ UNCHANGED <<dbHeads, live, overlapped, violation>>
  /\ FrameUnchanged

\* begin_transaction() exits normally: the version table is set to the
\* heads of the run's applied set and the transaction commits.
RunCommit(p) ==
  /\ runs[p].pc = "running"
  /\ runs[p].done = Len(runs[p].plan)
  /\ dbHeads' = HeadsOf(graph, WorkingSet(graph, runs[p]))
  /\ runs' = [runs EXCEPT ![p] = [IdleRun EXCEPT !.pc = "tx_done"]]
  /\ UNCHANGED <<live, overlapped, violation>>
  /\ FrameUnchanged

\* begin_transaction() exits on an exception: the run's steps are undone.
RunRollback(p) ==
  /\ runs[p].pc = "failed"
  /\ live' = Undone(live, runs[p])
  /\ runs' = [runs EXCEPT ![p] = [IdleRun EXCEPT !.pc = "tx_done"]]
  /\ UNCHANGED <<dbHeads, overlapped, violation>>
  /\ FrameUnchanged

\* engine.connect() exits: the connection is closed.
RunClose(p) ==
  /\ runs[p].pc = "tx_done"
  /\ runs' = [runs EXCEPT ![p] = IdleRun]
  /\ UNCHANGED <<dbHeads, live, overlapped, violation>>
  /\ FrameUnchanged

Connects == \E p \in Procs : RunConnect(p)

Begins == \E p \in Procs : RunBegin(p)

Resolves == \E p \in Procs : RunResolve(p)

Steps == \E p \in Procs : RunStep(p)

StepFails == \E p \in Procs : RunStepFail(p)

Commits == \E p \in Procs : RunCommit(p)

Rollbacks == \E p \in Procs : RunRollback(p)

Closes == \E p \in Procs : RunClose(p)

NextConcurrent ==
  \/ Connects
  \/ Begins
  \/ Resolves
  \/ Steps
  \/ StepFails
  \/ Commits
  \/ Rollbacks
  \/ Closes

\* The environment script of this model is Moonshine's.
InitConcurrent == Init /\ variant = "Moonshine"

SpecConcurrent == InitConcurrent /\ [][NextConcurrent]_vars

TypeOK ==
  /\ variant \in Variants
  /\ dbHeads \subseteq Revs
  /\ dbSchema \subseteq Revs
  /\ pc \in {"idle", "returned", "in_context", "in_history", "run_env", "online",
             "connected", "in_tx", "running", "failed", "tx_done"}
  /\ conn \in {"closed", "open"}
  /\ tx \in {"none", "active", "committed", "rolledback"}
  /\ done \in 0..Len(plan)
  /\ DOMAIN db_current_indicator \subseteq Revs
  /\ \A p \in Procs :
       /\ runs[p].pc \in {"idle", "connected", "in_tx", "running", "failed", "tx_done"}
       /\ runs[p].done \in 0..Len(runs[p].plan)
  /\ live \subseteq Revs
  /\ overlapped \in BOOLEAN
  /\ violation \in {"none", "twice", "order"}

---------------------------------------------------------------------------
(* Properties                                                              *)

\* The call has returned (or raised) and its outcome is in last.
Returned == pc = "returned"

\* The returned call ran online: it acquired a connection.
RanOnline == Returned /\ nconn = 1

\* The target of the call is one token naming a revision of the graph.
SingleKnown == Len(call.revision) = 1 /\ call.revision[1] \in Revs

\* C1: from an empty Version State Store, after any sequence of online
\* upgrade and downgrade runs, successful or failed, the applied set is
\* closed under ancestry and the version table holds exactly its heads; the
\* applied set inside a run is closed under ancestry after every step too.
C1_AppliedClosed ==
  /\ IsClosed(graph, dbSchema)
  /\ dbHeads = HeadsOf(graph, dbSchema)
  /\ tx = "active" => /\ IsClosed(graph, txSchema)
                      /\ pc = "running" => txSchema = applied

\* A downgrade run is in the middle of its steps, with a merge point in the
\* graph already reverted and some revision still applied.
C1_Witness ==
  /\ pc = "running"
  /\ ctx.fn = "downgrade"
  /\ 0 < done /\ done < Len(plan)
  /\ IsMergePoint(graph, plan[1].rev)
  /\ txSchema # {}

\* C2: in every resolved step sequence an apply step comes after all parents
\* of its revision are applied already or applied earlier in the sequence,
\* and a revert step comes before every revert of a parent of its revision.
C2_ParentsOrdered ==
  \A i \in 1..Len(plan) :
    /\ plan[i].dir = "apply" =>
         Parents(graph, plan[i].rev)
           \subseteq Closure(graph, cur) \cup {plan[j].rev : j \in 1..(i - 1)}
    /\ plan[i].dir = "revert" =>
         \A j \in 1..(i - 1) : plan[j].rev \notin Parents(graph, plan[i].rev)

\* A merge point is scheduled as the last of three applies from an empty
\* Current.
C2_Witness ==
  /\ Len(plan) = 3
  /\ IsMergePoint(graph, plan[3].rev)
  /\ plan[3].dir = "apply"
  /\ cur = {}

\* C3: while an online run is inside its transaction the committed schema and
\* version table are those of before the run, and when a step fails the run
\* ends rolled back, with both equal to their pre-run values and an error
\* that names the failing revision.
C3_FailureRollsBack ==
  /\ tx = "active" => dbHeads = preHeads /\ dbSchema = preSchema
  /\ (Returned /\ last.err.kind = "ExecutionError") =>
       /\ last.status = "error"
       /\ tx = "rolledback"
       /\ dbHeads = preHeads
       /\ dbSchema = preSchema
       /\ done < Len(plan)
       /\ last.err.rev = plan[done + 1].rev

\* A run failed at a middle step (neither the first nor the last) after it
\* changed the schema inside the transaction.
C3_Witness ==
  /\ Returned
  /\ last.err.kind = "ExecutionError"
  /\ 0 < done /\ done + 1 < Len(plan)
  /\ preHeads # {}

\* C4: a call with sql=True opens no connection and leaves the Version State
\* Store unchanged, and when it succeeds it returns the rendered text of its
\* step sequence.
C4_OfflineRendersOnly ==
  (Returned /\ call.sql) =>
    /\ nconn = 0
    /\ dbHeads = preHeads
    /\ last.status = "ok" => last.returned = "text" /\ last.text = plan

\* C5: downgrade with sql=True and a target that is not a from:to range fails
\* with the invalid-range error, before any connection is opened and with the
\* Version State Store unchanged.
C5_OfflineDowngradeNeedsRange ==
  (call.op = "downgrade" /\ call.sql /\ ~HasColon(call.revision)) =>
    /\ Returned
    /\ last.status = "error"
    /\ last.err.kind = "InvalidRangeSpec"
    /\ nconn = 0
    /\ conn = "closed"
    /\ tx = "none"
    /\ dbHeads = preHeads
    /\ dbSchema = preSchema

\* The offline downgrade without a range was called on a non-empty store.
C5_Witness ==
  /\ call.op = "downgrade" /\ call.sql /\ ~HasColon(call.revision)
  /\ call.revision[1] \in Revs
  /\ preHeads # {}

\* C6: stamp(target, purge=true) on a non-empty Version State Store executes
\* no step and leaves the version table equal to {target}.
C6_StampPurgeSetsTarget ==
  (Returned /\ call.op = "stamp" /\ call.purge /\ ~call.sql /\ SingleKnown
     /\ preHeads # {}) =>
    /\ dbHeads = {call.revision[1]}
    /\ done = 0
    /\ dbSchema = preSchema

\* The Version State Store an online call is to leave: the heads of the new
\* applied set for an upgrade or a downgrade, the target set for a stamp.
ExpectedHeads ==
  LET t == TargetSet(graph, call.revision[1])
  IN CASE call.op = "upgrade" ->
            HeadsOf(graph, Closure(graph, preHeads) \cup Closure(graph, t))
       [] call.op = "downgrade" ->
            HeadsOf(graph, Closure(graph, preHeads) \cap Closure(graph, t))
       [] OTHER -> t

\* C7: a call with sql=False and a known target executes online and leaves
\* the Version State Store at the new applied set, whichever wrapper is used.
C7_OnlineReachesTarget ==
  (Returned /\ ~call.sql /\ Len(call.revision) = 1 /\ KnownTarget(call.revision[1])
     /\ last.err.kind # "ExecutionError") =>
    /\ last.status = "ok"
    /\ nconn = 1
    /\ dbHeads = ExpectedHeads

\* The step sequence of the call has been resolved.
PlanResolved ==
  /\ ctx.fn \in {"upgrade", "downgrade"}
  /\ \/ pc = "running"
     \/ /\ pc \in {"failed", "tx_done", "returned"}
        /\ nconn = 1
        /\ err.kind \in {NoError, "ExecutionError"}
     \/ Returned /\ ctx.as_sql /\ last.status = "ok"

\* C8: an upgrade whose target and its ancestors are all in Current resolves
\* to an empty step sequence without error, and an upgrade that repeats the
\* successful online upgrade just before it executes nothing, succeeds and
\* leaves the Version State Store as the first run left it.
C8_UpgradeIdempotent ==
  /\ (PlanResolved /\ ctx.fn = "upgrade"
        /\ Closure(graph, TargetSet(graph, ctx.destination_rev)) \subseteq Closure(graph, cur))
       => plan = <<>> /\ err = NoErr
  /\ (Returned /\ call.op = "upgrade" /\ prev # NoPrev
        /\ prev.revision = call.revision /\ prev.sql = call.sql)
       => /\ last.status = "ok"
          /\ plan = <<>>
          /\ dbHeads = preHeads
          /\ dbSchema = preSchema

\* The same online upgrade ran twice in a row and the first run applied
\* revisions.
C8_Witness ==
  /\ RanOnline
  /\ call.op = "upgrade"
  /\ prev.revision = call.revision
  /\ prev.sql = call.sql
  /\ prev.n > 1
  /\ ctx.destination_rev \in Revs

\* An online downgrade to base succeeded right after an online upgrade to
\* heads that started from the empty store.
RoundTrip ==
  /\ RanOnline
  /\ last.status = "ok"
  /\ call.op = "downgrade"
  /\ ctx.destination_rev = "base"
  /\ prev.revision = <<"heads">>
  /\ prev.fromEmpty

\* C9: on a linear graph the upgrade from the empty state to heads and the
\* downgrade from heads to base that follows it have the same number of
\* steps, and after both the Version State Store is empty.
C9_LinearRoundTrip ==
  (RoundTrip /\ IsLinear(graph)) =>
    /\ Len(plan) = prev.n
    /\ dbHeads = {}
    /\ dbSchema = {}

\* The round trip happened on a linear graph, over every revision.
C9_Witness == RoundTrip /\ IsLinear(graph) /\ prev.n = MaxRev

\* C10: a call acquires at most one connection; whenever the connection is
\* closed no transaction is open; a call that returns or raises leaves the
\* connection closed, and if it began a transaction, has ended it by commit
\* (on success) or rollback (on any error).
C10_ScopedConnection ==
  /\ nconn <= 1
  /\ conn = "closed" => tx # "active"
  /\ pc \in {"idle", "returned"} => conn = "closed"
  /\ (Returned /\ nconn = 1 /\ call.op # "current") =>
       /\ tx \in {"committed", "rolledback"}
       /\ tx = "committed" <=> last.status = "ok"
  /\ (pc \in {"run_env", "online"}) => nconn = 0
  /\ (pc \in {"connected", "in_tx", "running", "failed", "tx_done", "in_context"}) =>
       nconn = 1 /\ conn = "open"

\* A run failed in the middle of its sequence and has returned.
C10_Witness ==
  /\ Returned
  /\ nconn = 1
  /\ tx = "rolledback"
  /\ last.err.kind = "ExecutionError"
  /\ done > 0

\* A history call has returned its list.
HistoryReturned == Returned /\ call.op = "history" /\ last.status = "ok"

\* C11: the list a history call returns is in chronological order: every
\* revision comes after all of its ancestors that are in the list, in both
\* variants.
C11_HistoryChronological ==
  HistoryReturned =>
    \A i, j \in DOMAIN last.text :
      last.text[j].rev \in Ancestors(graph, last.text[i].rev) => j < i

\* C12: no step of a history call (nor of any other call) changes a Revision:
\* the attribute values of the Script objects stay what they were.
C12_RevisionsUnchanged == [][db_current_indicator' = db_current_indicator]_vars

\* A downgrade run has resolved its steps against the live connection and
\* has returned or raised.
DowngradeRan == RanOnline /\ call.op = "downgrade" /\ Len(call.revision) = 1

\* The revisions a returned call has reverted.
Reverted == preSchema \ dbSchema

Quiet == \A p \in Procs : runs[p].pc = "idle"

\* C14: as long as every run has read Current only after the other run had
\* committed or rolled back, no revision is applied twice or out of order:
\* the database stays closed under ancestry, and between runs the store names
\* exactly its heads.  (The witness is the other half: with a stale read
\* such a fault is reached.)
C14_SerializedRunsKeepOrder ==
  ~overlapped =>
    /\ violation = "none"
    /\ IsClosed(graph, live)
    /\ Quiet => dbHeads = HeadsOf(graph, live)

\* Two runs overlapped, one resolved its steps from a stale Current, and the
\* combined execution has applied a revision twice or out of order.
C14_Witness == overlapped /\ violation # "none" /\ Quiet

====
